---- MODULE Spec2Model ----
(***************************************************************************)
(* Model of the ECG analysis core of cardiacity (lib/ecgUtils.ts):         *)
(* detectRPeaks, segmentECGData, calculateStats, parseECGCSV and            *)
(* generateSyntheticECG, and of the loads of the ECGPlot component.        *)
(*                                                                         *)
(* Conventions.                                                            *)
(*  - Times are integers in centiseconds (0.01 s), so the source's 0.25 s  *)
(*    is 25, 0.06 s is 6, and so on.  Voltages are integers.  Arithmetic   *)
(*    is exact; IEEE rounding of the source's doubles is not modelled.     *)
(*  - Arrays are sequences; the source's 0-based index i is position i+1,  *)
(*    read with At(s, i).  Beat indices are kept 0-based as in the source. *)
(*  - centered[i] = voltage[i] - mean is kept multiplied by the number of  *)
(*    samples (n*voltage[i] - sum), which preserves every comparison the   *)
(*    detector makes.                                                      *)
(*  - A JavaScript number that may be non-finite is a record               *)
(*    [kind, val] with kind in {"num", "inf", "nan"}.                      *)
(***************************************************************************)
EXTENDS Integers, Sequences, FiniteSets, TLC

VARIABLES
    pc,            \* "ready" before the call, "returned" after it
    time,          \* time[] argument
    voltage,       \* voltage[] argument
    segsArg,       \* data.segments argument (Undefined when absent)
    peaksArg,      \* rPeakIndices argument of segmentECGData / calculateStats
    peaksIndices,  \* value returned by detectRPeaks
    segments,      \* segments of the object returned by segmentECGData
    stats,         \* record returned by calculateStats
    gen,           \* generateSyntheticECG: arguments, loop state and output
    csv,           \* parseECGCSV: parsed rows and the promise's outcome
    host,          \* ECGPlot: component state and loads in flight
    app            \* App: playback, tutorial and what ECGPlot reported to it

coreVars == <<pc, time, voltage, segsArg, peaksArg, peaksIndices, segments, stats>>

vars == <<pc, time, voltage, segsArg, peaksArg, peaksIndices, segments, stats,
          gen, csv, host, app>>

\* value of a subsystem that takes no part in a specification
Idle == [pc |-> "idle"]

----------------------------------------------------------------------------
(* Bounds of the checked instances *)

MaxLen == 5

MaxSegLen == 3

MaxStatLen == 3

MaxBeats == 2

MaxStatBeats == 3

DetectTimeVals == {0, 1, 26, 27}

DetectVoltVals == {0, 1, 3}

----------------------------------------------------------------------------
(* Generic helpers *)

At(s, i) == s[i + 1]

InRange(s, i) == i >= 0 /\ i < Len(s)

Abs(x) == IF x < 0 THEN -x ELSE x

RECURSIVE SumSeq(_)
SumSeq(s) == IF s = <<>> THEN 0 ELSE Head(s) + SumSeq(Tail(s))

SeqsUpTo(S, n) == UNION {[1..k -> S] : k \in 0..n}

NonDecreasing(t) == \A i \in 1..(Len(t) - 1) : t[i] <= t[i + 1]

NonIncreasing(t) == \A i \in 1..(Len(t) - 1) : t[i] >= t[i + 1]

Undefined == <<"undefined">>

Labels == {"baseline", "p", "qrs", "t"}

----------------------------------------------------------------------------
(* detectRPeaks *)

RefractoryPeriod == 25

\* centered = voltage.map(v => v - mean), kept scaled by voltage.length
Centered(v) == [i \in 1..Len(v) |-> Len(v) * v[i] - SumSeq(v)]

\* maxVal = Math.max(...centered.map(Math.abs)), same scale as Centered
MaxVal(centered) ==
    CHOOSE m \in {Abs(centered[i]) : i \in 1..Len(centered)} :
        \A i \in 1..Len(centered) : Abs(centered[i]) <= m

\* current > threshold, with threshold = maxVal * 0.6
AboveThresholdLow(current, maxVal) == 100 * current > 6 * maxVal

AboveThreshold(current, maxVal) == 10 * current > 6 * maxVal

\* current > prev && current > next
IsLocalMaxWeak(prev, current, next) == current >= prev /\ current > next

IsLocalMax(prev, current, next) == current > prev /\ current > next

\* currentTime - lastPeakTime > refractoryPeriod
RefractoryElapsedWeak(currentTime, lastPeakTime) ==
    currentTime - lastPeakTime >= RefractoryPeriod

RefractoryElapsed(currentTime, lastPeakTime) ==
    currentTime - lastPeakTime > RefractoryPeriod

\* peaksIndices.push(i)
PushPeakOffByOne(peaks, i) == Append(peaks, i + 1)

PushPeak(peaks, i) == Append(peaks, i)

\* A scan that also visits the first and last sample and compares an edge
\* sample only with the neighbour it has.
RECURSIVE ScanPeaksEdges(_, _, _, _, _, _)
ScanPeaksEdges(t, centered, maxVal, i, peaks, lastPeakTime) ==
    LET j == i - 1 IN
    IF ~(j < Len(t)) THEN peaks
    ELSE
        LET current == At(centered, j)
            okPrev  == j = 0 \/ current > At(centered, j - 1)
            okNext  == j = Len(t) - 1 \/ current > At(centered, j + 1)
            accept  == /\ okPrev /\ okNext
                       /\ AboveThreshold(current, maxVal)
                       /\ RefractoryElapsed(At(t, j), lastPeakTime)
        IN  IF accept
            THEN ScanPeaksEdges(t, centered, maxVal, i + 1,
                                PushPeak(peaks, j), At(t, j))
            ELSE ScanPeaksEdges(t, centered, maxVal, i + 1, peaks, lastPeakTime)

\* for (let i = 1; i < time.length - 1; i++) { ... }
RECURSIVE ScanPeaks(_, _, _, _, _, _)
ScanPeaks(t, centered, maxVal, i, peaks, lastPeakTime) ==
    IF ~(i < Len(t) - 1) THEN peaks
    ELSE
        LET current == At(centered, i)
            prev    == At(centered, i - 1)
            next    == At(centered, i + 1)
            accept  == /\ IsLocalMax(prev, current, next)
                       /\ AboveThreshold(current, maxVal)
                       /\ RefractoryElapsed(At(t, i), lastPeakTime)
        IN  IF accept
            THEN ScanPeaks(t, centered, maxVal, i + 1, PushPeak(peaks, i), At(t, i))
            ELSE ScanPeaks(t, centered, maxVal, i + 1, peaks, lastPeakTime)

\* time and voltage have the same length here (the Signal contract), so
\* centered[i+1] is always defined inside the loop.
detectRPeaks(t, v) ==
    IF Len(t) = 0 \/ Len(v) = 0 THEN <<>>
    ELSE ScanPeaks(t, Centered(v), MaxVal(Centered(v)), 1, <<>>, -RefractoryPeriod)

----------------------------------------------------------------------------
(* Specification of a single detectRPeaks call.  The signal has up to       *)
(* MaxLen samples, any voltages, and timestamps in ascending or descending *)
(* order (repeated timestamps included).                                   *)

NoStats == [called |-> FALSE]

InitDetect ==
    /\ pc = "ready"
    /\ \E n \in 0..MaxLen :
          /\ time \in {t \in [1..n -> DetectTimeVals] :
                          NonDecreasing(t) \/ NonIncreasing(t)}
          /\ voltage \in [1..n -> DetectVoltVals]
    /\ segsArg = Undefined
    /\ peaksArg = <<>>
    /\ peaksIndices = <<>>
    /\ segments = <<>>
    /\ stats = NoStats
    /\ gen = Idle /\ csv = Idle /\ host = Idle /\ app = Idle

DetectCall ==
    /\ pc = "ready"
    /\ peaksIndices' = detectRPeaks(time, voltage)
    /\ pc' = "returned"
    /\ UNCHANGED <<time, voltage, segsArg, peaksArg, segments, stats, gen, csv, host, app>>

NextDetect == DetectCall

SpecDetect == InitDetect /\ [][NextDetect]_vars

----------------------------------------------------------------------------
(* Claims about detectRPeaks *)

\* C1: consecutive returned beats are more than 0.25 s apart:
\* time[b[k+1]] - time[b[k]] > 0.25 for every k, for every input.
C1_Refractory ==
    pc = "returned" =>
        \A k \in 1..(Len(peaksIndices) - 1) :
            At(time, peaksIndices[k + 1]) - At(time, peaksIndices[k]) > 25

C1_Witness ==
    /\ pc = "returned"
    /\ Len(peaksIndices) >= 2
    /\ At(time, peaksIndices[2]) - At(time, peaksIndices[1]) = 26

\* C2: every returned index i has voltage[i] - mean > 0.6 * max_j |voltage[j] - mean|
\* and is a strict local maximum of the signal.
C2_Threshold ==
    pc = "returned" =>
        \A k \in 1..Len(peaksIndices) :
            LET i == peaksIndices[k]
                n == Len(voltage)
                s == SumSeq(voltage)
            IN  /\ i - 1 >= 0 /\ i + 1 < n
                /\ \A j \in 0..(n - 1) :
                       /\ 10 * (n * At(voltage, i) - s) > 6 * (n * At(voltage, j) - s)
                       /\ 10 * (n * At(voltage, i) - s) > 6 * (s - n * At(voltage, j))
                /\ At(voltage, i) > At(voltage, i - 1)
                /\ At(voltage, i) > At(voltage, i + 1)

\* a signal with a sub-threshold local maximum next to an accepted beat
C2_Witness ==
    /\ pc = "returned"
    /\ Len(peaksIndices) = 1
    /\ \E j \in 1..(Len(voltage) - 2) :
          /\ j # peaksIndices[1]
          /\ At(voltage, j) > At(voltage, j - 1)
          /\ At(voltage, j) > At(voltage, j + 1)
          /\ At(time, j) > 0
          /\ Abs(At(time, j) - At(time, peaksIndices[1])) > 25

\* C3: the returned list is strictly increasing and every element lies in
\* [1, len(time) - 2], hence in [0, len(time)).
C3_Ordered ==
    pc = "returned" =>
        /\ \A k \in 1..Len(peaksIndices) :
              peaksIndices[k] >= 1 /\ peaksIndices[k] <= Len(time) - 2
        /\ \A k \in 1..(Len(peaksIndices) - 1) :
              peaksIndices[k] < peaksIndices[k + 1]

C3_Witness ==
    /\ pc = "returned"
    /\ Len(peaksIndices) = 2
    /\ peaksIndices[2] = Len(time) - 2

\* C4: an empty signal, a signal of fewer than 3 samples and a flat signal
\* all yield the empty list.
C4_NoBeats ==
    ( /\ pc = "returned"
      /\ \/ Len(time) < 3
         \/ \A i, j \in 1..Len(voltage) : voltage[i] = voltage[j] )
    => peaksIndices = <<>>

C4_WitnessShort ==
    /\ pc = "returned"
    /\ Len(time) = 2
    /\ voltage[2] > voltage[1]
    /\ time[2] > 0

----------------------------------------------------------------------------
(* segmentECGData *)

SegTimeVals == {0, 6, 12, 22, 42, 48}

BackLimit == 25

PLo == 10

PHi == 22

QrsBack == 6

FwdLimit == 45

QrsFwd == 6

TLo == 12

THi == 42

AllBaseline(n) == [i \in 1..n |-> "baseline"]

\* [...(data.segments || new Array(data.time.length).fill('baseline'))]
InitialSegmentsEmpty(t, segs) == IF segs = Undefined THEN <<>> ELSE segs

InitialSegments(t, segs) == IF segs = Undefined THEN AllBaseline(Len(t)) ELSE segs

\* segments[i] = label
SetLabel(segs, i, label) == [segs EXCEPT ![i + 1] = label]

\* if (dt > 0.1 && dt < 0.22) 'p'; else if (dt <= 0.06) 'qrs'   ("none": no write)
BackLabel(dt) ==
    IF dt > PLo /\ dt < PHi THEN "p"
    ELSE IF dt <= QrsBack THEN "qrs"
    ELSE "none"

\* if (dt < 0.06) 'qrs'; else if (dt > 0.12 && dt < 0.42) 't'
FwdLabelSymmetric(dt) ==
    IF dt <= QrsFwd THEN "qrs"
    ELSE IF dt > TLo /\ dt < THi THEN "t"
    ELSE "none"

FwdLabel(dt) ==
    IF dt < QrsFwd THEN "qrs"
    ELSE IF dt > TLo /\ dt < THi THEN "t"
    ELSE "none"

\* for (let i = idx; i >= 0; i--) { dt = tR - time[i]; if (dt > 0.25) break; ... }
RECURSIVE BackScan(_, _, _, _)
BackScan(t, tR, i, segs) ==
    IF ~(i >= 0) THEN segs
    ELSE LET dt == tR - At(t, i) IN
         IF dt > BackLimit THEN segs
         ELSE BackScan(t, tR, i - 1,
                       IF BackLabel(dt) = "none" THEN segs
                       ELSE SetLabel(segs, i, BackLabel(dt)))

\* for (let i = idx + 1; i < time.length; i++) { dt = time[i] - tR; if (dt > 0.45) break; ... }
RECURSIVE FwdScan(_, _, _, _)
FwdScan(t, tR, i, segs) ==
    IF ~(i < Len(t)) THEN segs
    ELSE LET dt == At(t, i) - tR IN
         IF dt > FwdLimit THEN segs
         ELSE FwdScan(t, tR, i + 1,
                      IF FwdLabel(dt) = "none" THEN segs
                      ELSE SetLabel(segs, i, FwdLabel(dt)))

\* body of rPeakIndices.forEach(idx => ...).  For an index outside the array,
\* tR = data.time[idx] is undefined, every dt is NaN, every comparison is
\* false and nothing is written.
SegmentBeat(t, idx, segs) ==
    IF ~InRange(t, idx) THEN segs
    ELSE FwdScan(t, At(t, idx), idx + 1, BackScan(t, At(t, idx), idx, segs))

\* the beats visited last to first
RECURSIVE ForEachBeatReversed(_, _, _)
ForEachBeatReversed(t, peaks, segs) ==
    IF peaks = <<>> THEN segs
    ELSE ForEachBeatReversed(t, SubSeq(peaks, 1, Len(peaks) - 1),
                             SegmentBeat(t, peaks[Len(peaks)], segs))

RECURSIVE ForEachBeat(_, _, _)
ForEachBeat(t, peaks, segs) ==
    IF peaks = <<>> THEN segs
    ELSE ForEachBeat(t, Tail(peaks), SegmentBeat(t, Head(peaks), segs))

\* the segments field of the returned { ...data, segments }
segmentECGData(t, segs, rPeakIndices) ==
    ForEachBeat(t, rPeakIndices, InitialSegments(t, segs))

----------------------------------------------------------------------------
(* Specification of a single segmentECGData call.  data.segments is absent  *)
(* (the analyzeData call) or the all-baseline array that parseECGCSV        *)
(* produces; the beat list is any list of indices, the index len(time),     *)
(* which is outside the array, included.                                    *)

InitSegment ==
    /\ pc = "ready"
    /\ \E n \in 0..MaxSegLen :
          /\ time \in [1..n -> SegTimeVals]
          /\ voltage = [i \in 1..n |-> 0]
          /\ segsArg \in {Undefined, AllBaseline(n)}
          /\ peaksArg \in SeqsUpTo(0..n, MaxBeats)
    /\ peaksIndices = <<>>
    /\ segments = <<>>
    /\ stats = NoStats
    /\ gen = Idle /\ csv = Idle /\ host = Idle /\ app = Idle

\* data.segments after the call: the labels are written into the copy made
\* by the spread of line 150, never into data.segments itself
DataSegmentsAliased(segs, out) == IF segs = Undefined THEN segs ELSE out

DataSegments(segs, out) == segs

SegmentCall ==
    /\ pc = "ready"
    /\ segments' = segmentECGData(time, segsArg, peaksArg)
    /\ segsArg' = DataSegments(segsArg, segmentECGData(time, segsArg, peaksArg))
    /\ pc' = "returned"
    /\ UNCHANGED <<time, voltage, peaksArg, peaksIndices, stats, gen, csv, host, app>>

NextSegment == SegmentCall

SpecSegment == InitSegment /\ [][NextSegment]_vars

----------------------------------------------------------------------------
(* Claims about segmentECGData *)

----------------------------------------------------------------------------
(* calculateStats *)

StatTimeVals == {0, 32, 96, 100, 175}

SecondsPerMinute == 60

DegenerateQrs == 80

PlaceholderQrs == 90

\* JavaScript numbers that may be non-finite
Num(k) == [kind |-> "num", val |-> k]

NaN == [kind |-> "nan", val |-> 0]

PosInf == [kind |-> "inf", val |-> 1]

FloorDiv(a, b) == IF a >= 0 THEN a \div b ELSE -(((-a) + b - 1) \div b)

\* Math.floor(a / b) for b # 0
FloorRatio(a, b) == IF b > 0 THEN FloorDiv(a, b) ELSE FloorDiv(-a, -b)

\* Math.round(a / b) for b # 0: floor(a/b + 0.5), ties go up
RoundRatio(a, b) ==
    IF b > 0 THEN FloorDiv(2 * a + b, 2 * b) ELSE FloorDiv(-(2 * a) - b, -(2 * b))

\* Math.round(Math.sqrt(num / den)) for num >= 0, den > 0: the least k >= 0
\* with sqrt(num/den) < k + 1/2, i.e. 4*num < (2k+1)^2 * den
RoundsBelow(num, den, k) == 4 * num < (2 * k + 1) * (2 * k + 1) * den

RECURSIVE SqrtUpper(_, _, _)
SqrtUpper(num, den, k) ==
    IF RoundsBelow(num, den, k) THEN k ELSE SqrtUpper(num, den, 2 * k + 1)

RECURSIVE SqrtBisect(_, _, _, _)
SqrtBisect(num, den, lo, hi) ==
    IF lo = hi THEN lo
    ELSE LET mid == (lo + hi) \div 2 IN
         IF RoundsBelow(num, den, mid) THEN SqrtBisect(num, den, lo, mid)
         ELSE SqrtBisect(num, den, mid + 1, hi)

RoundSqrtRatio(num, den) == SqrtBisect(num, den, 0, SqrtUpper(num, den, 0))

RECURSIVE MinSeq(_)
MinSeq(s) ==
    IF Len(s) = 1 THEN s[1]
    ELSE IF s[1] <= MinSeq(Tail(s)) THEN s[1] ELSE MinSeq(Tail(s))

RECURSIVE MaxSeq(_)
MaxSeq(s) ==
    IF Len(s) = 1 THEN s[1]
    ELSE IF s[1] >= MaxSeq(Tail(s)) THEN s[1] ELSE MaxSeq(Tail(s))

\* const duration = time.length > 0 ? time[time.length - 1] - time[0] : 0
Duration(t) == IF Len(t) > 0 THEN At(t, Len(t) - 1) - At(t, 0) ELSE 0

\* the record returned when rPeakIndices.length < 2
DegenerateStatsUnified(duration) ==
    [bpm |-> Num(0), rrIntervals |-> <<>>, sdnn |-> Num(0), rmssd |-> Num(0),
     qrsDuration |-> PlaceholderQrs, duration |-> duration, minRR |-> 0, maxRR |-> 0]

DegenerateStats(duration) ==
    [bpm |-> Num(0), rrIntervals |-> <<>>, sdnn |-> Num(0), rmssd |-> Num(0),
     qrsDuration |-> DegenerateQrs, duration |-> duration, minRR |-> 0, maxRR |-> 0]

\* diff = time[rPeakIndices[i]] - time[rPeakIndices[i-1]], i 0-based in 1..len-1
RRDiffFromFirst(t, peaks, i) == At(t, At(peaks, i)) - At(t, At(peaks, 0))

RRDiff(t, peaks, i) == At(t, At(peaks, i)) - At(t, At(peaks, i - 1))

RRIntervals(t, peaks) == [k \in 1..(Len(peaks) - 1) |-> RRDiff(t, peaks, k)]

\* Math.round(60 / (sum / rr.length)); rr in centiseconds, so 6000 * N / sum
BpmTruncated(rr) ==
    IF SumSeq(rr) = 0 THEN PosInf
    ELSE Num(FloorRatio(SecondsPerMinute * 100 * Len(rr), SumSeq(rr)))

Bpm(rr) ==
    IF SumSeq(rr) = 0 THEN PosInf
    ELSE Num(RoundRatio(SecondsPerMinute * 100 * Len(rr), SumSeq(rr)))

SumSquares(s) == SumSeq([i \in 1..Len(s) |-> s[i] * s[i]])

\* Math.round(Math.sqrt(sum((rr - meanRR)^2) / N) * 1000), population deviation:
\* sum((rr - S/N)^2) / N = (N*sum(rr^2) - S^2) / N^2 in cs^2, times 10^2 for ms^2
Sdnn(rr) ==
    Num(RoundSqrtRatio(100 * (Len(rr) * SumSquares(rr) - SumSeq(rr) * SumSeq(rr)),
                       Len(rr) * Len(rr)))

\* sumSquaredDiffs: ((rr[i] - rr[i-1]) * 1000)^2 with rr in seconds
SumSquaredDiffs(rr) ==
    SumSeq([i \in 1..(Len(rr) - 1) |-> 100 * (rr[i + 1] - rr[i]) * (rr[i + 1] - rr[i])])

\* Math.round(Math.sqrt(sumSquaredDiffs / (rr.length - 1))); with one interval
\* this is 0 / 0 = NaN, and Math.round(Math.sqrt(NaN)) = NaN
Rmssd(rr) ==
    IF Len(rr) - 1 = 0 THEN NaN
    ELSE Num(RoundSqrtRatio(SumSquaredDiffs(rr), Len(rr) - 1))

calculateStats(rPeakIndices, t) ==
    IF Len(rPeakIndices) < 2 THEN DegenerateStats(Duration(t))
    ELSE LET rr == RRIntervals(t, rPeakIndices) IN
         [bpm |-> Bpm(rr), rrIntervals |-> rr, sdnn |-> Sdnn(rr), rmssd |-> Rmssd(rr),
          qrsDuration |-> PlaceholderQrs, duration |-> Duration(t),
          minRR |-> MinSeq(rr), maxRR |-> MaxSeq(rr)]

----------------------------------------------------------------------------
(* Specification of a single calculateStats call: any time array and any    *)
(* list of valid beat indices (any order, repetitions allowed).             *)

InitStats ==
    /\ pc = "ready"
    /\ \E n \in 0..MaxStatLen :
          /\ time \in [1..n -> StatTimeVals]
          /\ voltage = [i \in 1..n |-> 0]
          /\ peaksArg \in SeqsUpTo(0..(n - 1), MaxStatBeats)
    /\ segsArg = Undefined
    /\ peaksIndices = <<>>
    /\ segments = <<>>
    /\ stats = NoStats
    /\ gen = Idle /\ csv = Idle /\ host = Idle /\ app = Idle

StatsCall ==
    /\ pc = "ready"
    /\ stats' = calculateStats(peaksArg, time)
    /\ pc' = "returned"
    /\ UNCHANGED <<time, voltage, segsArg, peaksArg, peaksIndices, segments, gen, csv, host, app>>

NextStats == StatsCall

SpecStats == InitStats /\ [][NextStats]_vars

----------------------------------------------------------------------------
(* Claims about calculateStats *)

\* C7: with fewer than 2 beat indices the result is bpm=0, rrIntervals=[],
\* sdnn=0, rmssd=0, qrsDuration=80, minRR=0, maxRR=0 and
\* duration = time[last] - time[first] (0 when time is empty).
C7_Degenerate ==
    (pc = "returned" /\ Len(peaksArg) < 2) =>
        /\ stats.bpm = Num(0)
        /\ stats.rrIntervals = <<>>
        /\ stats.sdnn = Num(0)
        /\ stats.rmssd = Num(0)
        /\ stats.qrsDuration = 80
        /\ stats.minRR = 0
        /\ stats.maxRR = 0
        /\ stats.duration = IF time = <<>> THEN 0 ELSE time[Len(time)] - time[1]

C7_Witness ==
    /\ pc = "returned"
    /\ Len(peaksArg) = 1
    /\ Len(time) = MaxStatLen
    /\ stats.duration > 0

\* C8: with exactly two beat indices (one RR interval) rmssd is 0, not NaN.
C8_RmssdZeroGuard ==
    (pc = "returned" /\ Len(peaksArg) = 2) => stats.rmssd = Num(0)

\* C9: for len(b) >= 2, rrIntervals has len(b)-1 entries with
\* rrIntervals[k] = time[b[k+1]] - time[b[k]], and minRR / maxRR are the
\* minimum / maximum of rrIntervals (so minRR <= maxRR).
C9_RRIntervals ==
    (pc = "returned" /\ Len(peaksArg) >= 2) =>
        LET rr == stats.rrIntervals IN
        /\ Len(rr) = Len(peaksArg) - 1
        /\ \A k \in 1..Len(rr) :
              rr[k] = At(time, peaksArg[k + 1]) - At(time, peaksArg[k])
        /\ \E k \in 1..Len(rr) : rr[k] = stats.minRR
        /\ \E k \in 1..Len(rr) : rr[k] = stats.maxRR
        /\ \A k \in 1..Len(rr) : stats.minRR <= rr[k] /\ rr[k] <= stats.maxRR
        /\ stats.minRR <= stats.maxRR

C9_Witness ==
    /\ pc = "returned"
    /\ Len(peaksArg) = 3
    /\ stats.rrIntervals = <<32, 64>>
    /\ stats.minRR = 32
    /\ stats.maxRR = 64

\* C10: for len(b) >= 2, bpm is 60 / mean(rrIntervals) rounded to the nearest
\* integer: |bpm - 60/mean| <= 1/2 (the quotient being +Infinity, which
\* rounds to itself, when the intervals sum to zero).
C10_Bpm ==
    (pc = "returned" /\ Len(peaksArg) >= 2) =>
        LET N == Len(peaksArg) - 1
            S == SumSeq([k \in 1..N |->
                            At(time, peaksArg[k + 1]) - At(time, peaksArg[k])])
        IN  IF S = 0 THEN stats.bpm.kind = "inf"
            ELSE /\ stats.bpm.kind = "num"
                 /\ Abs(2 * S * stats.bpm.val - 2 * 6000 * N) <= Abs(S)

\* two beats 0.96 s apart: 60 / 0.96 = 62.5, reported as 63
C10_Witness ==
    /\ pc = "returned"
    /\ Len(peaksArg) = 2
    /\ stats.rrIntervals = <<96>>
    /\ stats.bpm = Num(63)

\* C11 (as stated): qrsDuration is 90 for every beat list and time array.
C11_AlwaysNinety ==
    pc = "returned" => stats.qrsDuration = 90

\* C11 (amended): qrsDuration is the fixed placeholder 90 whenever there are
\* at least 2 beat indices and the fixed placeholder 80 otherwise; in both
\* cases it does not depend on the signal.
C11_QrsPlaceholder ==
    pc = "returned" =>
        stats.qrsDuration = IF Len(peaksArg) >= 2 THEN 90 ELSE 80

C11_Witness ==
    /\ pc = "returned"
    /\ Len(peaksArg) = 3
    /\ stats.rrIntervals = <<96, -96>>
    /\ stats.qrsDuration = 90

----------------------------------------------------------------------------
(* analyzeData (ECGPlot.tsx): detectRPeaks, the report of the beat          *)
(* timestamps to App, then segmentECGData unless segments were supplied,    *)
(* then calculateStats and its report, on one signal.  pc is the position   *)
(* inside analyzeData; app is the App component the callbacks belong to.    *)

MaxAnalyzeLen == 3

\* the labels of supplied ground-truth segments
SuppliedLabels == {"p", "t"}

\* useState initial values of App
AppInitial ==
    [pc |-> "running",
     beatTimestamps |-> <<>>,
     stats |-> [bpm |-> Num(0), rrIntervals |-> <<>>, sdnn |-> Num(0),
                rmssd |-> Num(0), qrsDuration |-> 0, duration |-> 1000,
                minRR |-> 0, maxRR |-> 0],
     activeBeat |-> FALSE,
     isPlaying |-> FALSE,
     cursorTimestamp |-> 0,
     pointDetails |-> [time |-> 0, voltage |-> 0, segment |-> "null"],
     tutorialMode |-> FALSE,
     tutorialStep |-> 0,
     lastFrameSet |-> FALSE,   \* lastFrameTimeRef.current # 0
     event |-> "none",         \* the handler that ran last
     delta |-> 0]              \* delta of the last animation frame

\* handleBeatsDetected(timestamps)
handleBeatsDetected(a, timestamps) ==
    [a EXCEPT !.beatTimestamps = timestamps, !.isPlaying = TRUE]

\* handleStatsUpdate(newStats)
handleStatsUpdate(a, newStats) == [a EXCEPT !.stats = newStats]

\* indices.map(i => rawTime[i])
BeatTimes(t, indices) == [k \in 1..Len(indices) |-> At(t, indices[k])]

\* the segments of the ecgData handed to setData
StoredSegmentsAlways(t, segs, indices) == segmentECGData(t, segs, indices)

StoredSegments(t, segs, indices) ==
    IF segs = Undefined \/ Len(segs) = 0
    THEN segmentECGData(t, segs, indices)
    ELSE segs

\* processCSV: analyzeData(parsedData.time, parsedData.voltage)
InitPipeline ==
    /\ pc = "ready"
    /\ \E n \in 0..MaxLen :
          /\ time \in {t \in [1..n -> DetectTimeVals] :
                          NonDecreasing(t) \/ NonIncreasing(t)}
          /\ voltage \in [1..n -> DetectVoltVals]
    /\ segsArg = Undefined
    /\ peaksArg = <<>>
    /\ peaksIndices = <<>>
    /\ segments = <<>>
    /\ stats = NoStats
    /\ gen = Idle /\ csv = Idle /\ host = Idle
    /\ app = AppInitial

\* either caller: processCSV without segments, loadPreset with the
\* generator's ground-truth segments (one label per sample)
InitAnalyze ==
    /\ pc = "ready"
    /\ \E n \in 0..MaxAnalyzeLen :
          /\ time \in {t \in [1..n -> DetectTimeVals] : NonDecreasing(t)}
          /\ voltage \in [1..n -> DetectVoltVals]
          /\ segsArg \in {Undefined} \cup
                         (IF n = 0 THEN {} ELSE [1..n -> SuppliedLabels])
    /\ peaksArg = <<>>
    /\ peaksIndices = <<>>
    /\ segments = <<>>
    /\ stats = NoStats
    /\ gen = Idle /\ csv = Idle /\ host = Idle
    /\ app = AppInitial

\* const indices = detectRPeaks(rawTime, rawVoltage)
AnalyzeDetect ==
    /\ pc = "ready"
    /\ peaksIndices' = detectRPeaks(time, voltage)
    /\ pc' = "detected"
    /\ UNCHANGED <<time, voltage, segsArg, peaksArg, segments, stats, gen, csv, host, app>>

\* onBeatsDetected(indices.map(i => rawTime[i]))
AnalyzeReport ==
    /\ pc = "detected"
    /\ app' = handleBeatsDetected(app, BeatTimes(time, peaksIndices))
    /\ pc' = "reported"
    /\ UNCHANGED <<time, voltage, segsArg, peaksArg, peaksIndices, segments, stats,
                   gen, csv, host>>

\* if (!rawSegments || rawSegments.length === 0) ecgData = segmentECGData(ecgData, indices)
\* setData(ecgData)
AnalyzeSegment ==
    /\ pc = "reported"
    /\ segments' = StoredSegments(time, segsArg, peaksIndices)
    /\ pc' = "segmented"
    /\ UNCHANGED <<time, voltage, segsArg, peaksArg, peaksIndices, stats, gen, csv, host, app>>

\* const stats = calculateStats(indices, rawTime); onStatsUpdate(stats)
AnalyzeStats ==
    /\ pc = "segmented"
    /\ stats' = calculateStats(peaksIndices, time)
    /\ app' = handleStatsUpdate(app, calculateStats(peaksIndices, time))
    /\ pc' = "done"
    /\ UNCHANGED <<time, voltage, segsArg, peaksArg, peaksIndices, segments, gen, csv, host>>

NextPipeline == AnalyzeDetect \/ AnalyzeReport \/ AnalyzeSegment \/ AnalyzeStats

SpecPipeline == InitPipeline /\ [][NextPipeline]_vars

SpecAnalyze == InitAnalyze /\ [][NextPipeline]_vars

\* C13: for an all-zero signal of any length, and for an empty or
\* shorter-than-3-sample signal, the pipeline ends with no beats, an
\* all-'baseline' segment array of the input length and the zeroed
\* placeholder statistics record; every stage returns a value.
C13_DegeneratePipeline ==
    ( \/ Len(time) < 3
      \/ \A i \in 1..Len(voltage) : voltage[i] = 0 )
    => /\ pc \in {"detected", "reported", "segmented", "done"} => peaksIndices = <<>>
       /\ pc \in {"segmented", "done"} =>
             /\ Len(segments) = Len(time)
             /\ \A i \in 1..Len(segments) : segments[i] = "baseline"
       /\ pc = "done" =>
             stats = [bpm |-> Num(0), rrIntervals |-> <<>>, sdnn |-> Num(0),
                      rmssd |-> Num(0), qrsDuration |-> 80,
                      duration |-> IF time = <<>> THEN 0
                                   ELSE time[Len(time)] - time[1],
                      minRR |-> 0, maxRR |-> 0]

\* the whole pipeline has run on an all-zero signal of full length
C13_Witness ==
    /\ pc = "done"
    /\ Len(time) = MaxLen
    /\ \A i \in 1..Len(voltage) : voltage[i] = 0
    /\ stats.duration > 0

\* C21: analyzeData runs detect, report of the beat timestamps, segment,
\* statistics in this order; with non-empty supplied segments
\* segmentECGData is not invoked and the stored segments are the supplied
\* ones, without supplied segments they are segmentECGData's output on the
\* detected beats.
C21_AnalyzeOrder ==
    /\ pc = "ready" => peaksIndices = <<>> /\ app = AppInitial
    /\ pc = "detected" =>
          /\ peaksIndices = detectRPeaks(time, voltage)
          /\ app = AppInitial /\ segments = <<>> /\ stats = NoStats
    /\ pc = "reported" =>
          /\ app.beatTimestamps = BeatTimes(time, peaksIndices)
          /\ app.stats = AppInitial.stats
          /\ segments = <<>> /\ stats = NoStats
    /\ pc = "segmented" =>
          /\ app.beatTimestamps = BeatTimes(time, peaksIndices)
          /\ app.stats = AppInitial.stats /\ stats = NoStats
    /\ pc \in {"segmented", "done"} =>
          /\ segsArg # Undefined => segments = segsArg
          /\ segsArg = Undefined =>
                segments = segmentECGData(time, Undefined,
                                          detectRPeaks(time, voltage))
    /\ pc = "done" =>
          /\ stats = calculateStats(detectRPeaks(time, voltage), time)
          /\ app.stats = stats

\* supplied segments around a detected beat are stored untouched
C21_Witness ==
    /\ pc = "done"
    /\ peaksIndices = <<1>>
    /\ segsArg = <<"p", "t", "p">>
    /\ segments = <<"p", "t", "p">>
    /\ app.beatTimestamps = <<time[2]>>

\* C24: on a signal with non-decreasing time, after segmentECGData on the
\* beats detectRPeaks found, the label at every detected beat index is
\* 'qrs'.
C24_BeatsAreQrs ==
    (NonDecreasing(time) /\ pc \in {"segmented", "done"}) =>
        \A k \in 1..Len(peaksIndices) : At(segments, peaksIndices[k]) = "qrs"

\* the second beat lies 0.26 s after the first, inside the first beat's T
\* window, and is still 'qrs'
C24_Witness ==
    /\ pc = "done"
    /\ time = <<0, 1, 1, 27, 27>>
    /\ peaksIndices = <<1, 3>>
    /\ segments[2] = "qrs"
    /\ segments[4] = "qrs"

\* C25: on a signal with non-decreasing time on which detectRPeaks finds at
\* least two beats, calculateStats on those beats gives every rrInterval
\* > 0.25 s, minRR > 0.25 s and a finite bpm <= 240.
C25_RateBound ==
    (NonDecreasing(time) /\ pc = "done" /\ Len(peaksIndices) >= 2) =>
        /\ \A k \in 1..Len(stats.rrIntervals) :
              stats.rrIntervals[k] > RefractoryPeriod
        /\ Len(stats.rrIntervals) = Len(peaksIndices) - 1
        /\ stats.minRR > RefractoryPeriod
        /\ stats.bpm.kind = "num"
        /\ stats.bpm.val <= 240

\* two beats 0.26 s apart: 60 / 0.26 rounds to 231
C25_Witness ==
    /\ pc = "done"
    /\ NonDecreasing(time)
    /\ peaksIndices = <<1, 3>>
    /\ stats.rrIntervals = <<26>>
    /\ stats.bpm = Num(231)

\* C26: a sample whose centered value equals that of an adjacent sample (the
\* top of a plateau) is never accepted by detectRPeaks, even above the
\* threshold and with the refractory period elapsed.
C26_NoPlateauPeaks ==
    pc = "returned" =>
        \A i \in 0..(Len(voltage) - 2) :
            Centered(voltage)[i + 1] = Centered(voltage)[i + 2] =>
                \A k \in 1..Len(peaksIndices) :
                    peaksIndices[k] # i /\ peaksIndices[k] # i + 1

\* a two-sample plateau at the signal's maximum, 0.26 s into the signal,
\* gives no beat
C26_Witness ==
    /\ pc = "returned"
    /\ time = <<0, 26, 27, 27>>
    /\ voltage = <<0, 3, 3, 0>>
    /\ AboveThreshold(Centered(voltage)[2], MaxVal(Centered(voltage)))
    /\ RefractoryElapsed(time[2], -RefractoryPeriod)
    /\ peaksIndices = <<>>

----------------------------------------------------------------------------
(* The three functions called on the same arguments                         *)

FrameVoltVals == {0, 3}

InitFrame ==
    /\ pc = "ready"
    /\ \E n \in 0..MaxSegLen :
          /\ time \in {t \in [1..n -> SegTimeVals] : NonDecreasing(t)}
          /\ voltage \in [1..n -> FrameVoltVals]
          /\ segsArg \in {Undefined, AllBaseline(n)}
          /\ peaksArg \in SeqsUpTo(0..(n - 1), MaxBeats)
    /\ peaksIndices = <<>>
    /\ segments = <<>>
    /\ stats = NoStats
    /\ gen = Idle /\ csv = Idle /\ host = Idle /\ app = Idle

NextFrame == DetectCall \/ SegmentCall \/ StatsCall

SpecFrame == InitFrame /\ [][NextFrame]_vars

\* C23: detectRPeaks, segmentECGData and calculateStats leave time, voltage,
\* data.segments and rPeakIndices as they were; segmentECGData's labels go
\* into a copy, and the returned object keeps the input time and voltage.
C23_InputsUnchanged ==
    [][ /\ time' = time
        /\ voltage' = voltage
        /\ segsArg' = segsArg
        /\ peaksArg' = peaksArg ]_vars

\* segmentECGData has labelled a beat and the supplied array is still all
\* baseline
C23_Witness ==
    /\ pc = "returned"
    /\ peaksArg = <<1>>
    /\ segsArg = AllBaseline(3)
    /\ segments # segsArg

----------------------------------------------------------------------------
(* Further claims about detectRPeaks (SpecDetect) *)

\* sample i (0-based) is a strict local maximum whose centered amplitude
\* exceeds 0.6 * max |centered|, stated on the voltage and its mean
QualifyingPeak(i) ==
    LET n == Len(voltage)
        s == SumSeq(voltage)
    IN  /\ i >= 1 /\ i <= n - 2
        /\ At(voltage, i) > At(voltage, i - 1)
        /\ At(voltage, i) > At(voltage, i + 1)
        /\ \A j \in 0..(n - 1) :
              /\ 10 * (n * At(voltage, i) - s) > 6 * (n * At(voltage, j) - s)
              /\ 10 * (n * At(voltage, i) - s) > 6 * (s - n * At(voltage, j))

\* C18: the lowest-index strict local maximum above the threshold is always
\* accepted as a beat, whatever its timestamp.
C18_FirstPeakAccepted ==
    pc = "returned" =>
        \A i \in 0..(Len(time) - 1) :
            (QualifyingPeak(i) /\ \A j \in 0..(i - 1) : ~QualifyingPeak(j))
            => \E k \in 1..Len(peaksIndices) : peaksIndices[k] = i

----------------------------------------------------------------------------
(* Further claims about segmentECGData (SpecSegment) *)

\* the label the windows of the beat at idx give to sample i, "none" outside
\* every window (time non-decreasing)
WindowLabel(idx, i) ==
    LET tR == At(time, idx)
        ti == At(time, i)
    IN  IF i <= idx /\ 10 < tR - ti /\ tR - ti < 22 THEN "p"
        ELSE IF i <= idx /\ tR - ti <= 6 THEN "qrs"
        ELSE IF i > idx /\ ti - tR < 6 THEN "qrs"
        ELSE IF i > idx /\ 12 < ti - tR /\ ti - tR < 42 THEN "t"
        ELSE "none"

\* C19: beats are processed in list order; a sample inside a window of the
\* earlier and of the later beat of the list ends with the later beat's
\* label, and a sample only the earlier beat labels keeps that label.
C19_LaterBeatWins ==
    ( /\ pc = "returned"
      /\ Len(peaksArg) = 2
      /\ InRange(time, peaksArg[1]) /\ InRange(time, peaksArg[2])
      /\ NonDecreasing(time) )
    => \A i \in 0..(Len(time) - 1) :
          LET first == WindowLabel(peaksArg[1], i)
              later == WindowLabel(peaksArg[2], i)
          IN  At(segments, i) = IF later # "none" THEN later
                                ELSE IF first # "none" THEN first
                                ELSE "baseline"

\* the middle sample is in the T window of the first beat and in the P window
\* of the second; the last sample keeps no label of the first beat
C19_Witness ==
    /\ pc = "returned"
    /\ time = <<0, 22, 42>>
    /\ peaksArg = <<0, 2>>
    /\ segments = <<"qrs", "p", "qrs">>

----------------------------------------------------------------------------
(* generateSyntheticECG                                                     *)
(*                                                                         *)
(* Time values pushed to the output are kept in ticks of 1/fs second, so    *)
(* the source's t = i / fs is the integer i.  Beat timing is kept in units  *)
(* of 1/(fs * bpm) second: t is i * bpm and beatDuration = 60 / bpm is      *)
(* 60 * fs.  A phase comparison phase > x is checked as                     *)
(* 1000 * dist > (1000 x) * beatDuration.                                   *)
(* A voltage sample is a real number built from Math.sin, Math.exp and      *)
(* Math.random; only the number of samples pushed is kept, and the one      *)
(* test the code makes on it (v > 0.05 inside the T window) is a free       *)
(* choice.  Of the segments array the length and the last label are kept.   *)

Fs == 250

ECGTypes == {"normal", "tachycardia", "bradycardia", "afib", "qt_prolongation"}

\* durationSeconds: the value loadPreset passes (10) and small ones
GenDurations == {0, 1, 2, 10}

\* Math.random() in thousandths
RandomSamples == {0, 999}

GenBpm(type) ==
    CASE type = "tachycardia" -> 130
      [] type = "bradycardia" -> 45
      [] type = "afib" -> 90
      [] OTHER -> 60

\* irregularity, in tenths
Irregularity10(type) == IF type = "afib" THEN 6 ELSE 0

\* qtFactor, in tenths
QtFactor10(type) == IF type = "qt_prolongation" THEN 16 ELSE 10

\* beatDuration = 60 / bpm
BeatDuration == 60 * Fs

\* (Math.random() - 0.5) * irregularity * beatDuration
RandomVar(type, r) == ((r - 500) * Irregularity10(type) * BeatDuration) \div 10000

\* phase > x and phase < x, x in thousandths
PhaseGt(dist, x) == 1000 * dist > x * BeatDuration

PhaseLt(dist, x) == 1000 * dist < x * BeatDuration

InPWindow(dist) == PhaseGt(dist, 100) /\ PhaseLt(dist, 220)

\* Math.abs(phase - 0.16) < 0.05
NearPCenter(dist) == PhaseGt(dist, 110) /\ PhaseLt(dist, 210)

InQrsWindow(dist) == PhaseGt(dist, 380) /\ PhaseLt(dist, 440)

\* phase > 0.5 * qtFactor && phase < 0.75 * qtFactor
InTWindow(type, dist) ==
    /\ 10 * 1000 * dist > 500 * QtFactor10(type) * BeatDuration
    /\ 10 * 1000 * dist < 750 * QtFactor10(type) * BeatDuration

\* seg after the P, QRS and T blocks of one iteration; vAbove is v > 0.05
SegAfterP(type, dist) ==
    IF type # "afib" /\ InPWindow(dist) /\ NearPCenter(dist) THEN "p" ELSE "baseline"

SegAfterQrs(type, dist) ==
    IF InQrsWindow(dist) THEN "qrs" ELSE SegAfterP(type, dist)

SegOf(type, dist, vAbove) ==
    IF InTWindow(type, dist) /\ vAbove THEN "t" ELSE SegAfterQrs(type, dist)

\* i < durationSeconds * fs
GenContinueInclusive(i, d) == i <= d * Fs

GenContinue(i, d) == i < d * Fs

InitGen ==
    /\ pc = "ready"
    /\ time = <<>> /\ voltage = <<>>
    /\ segsArg = Undefined
    /\ peaksArg = <<>>
    /\ peaksIndices = <<>>
    /\ segments = <<>>
    /\ stats = NoStats
    /\ csv = Idle /\ host = Idle /\ app = Idle
    /\ \E type \in ECGTypes, d \in GenDurations :
          gen = [pc |-> "loop", type |-> type, d |-> d, i |-> 0,
                 nextBeatTime |-> 0, dist |-> 0,
                 time |-> <<>>, voltageLen |-> 0, segLen |-> 0, seg |-> "baseline"]

\* one iteration of the for loop; newBeat is t >= nextBeatTime
GenIteration(r, vAbove) ==
    LET t       == gen.i * GenBpm(gen.type)
        newBeat == t >= gen.nextBeatTime
        next    == IF newBeat
                   THEN t + BeatDuration + RandomVar(gen.type, r)
                   ELSE gen.nextBeatTime
        dist    == t - (next - BeatDuration)
    IN  gen' = [gen EXCEPT !.time = Append(@, gen.i),
                           !.nextBeatTime = next,
                           !.dist = dist,
                           !.voltageLen = @ + 1,
                           !.segLen = @ + 1,
                           !.seg = SegOf(gen.type, dist, vAbove),
                           !.i = @ + 1]

GenStep ==
    /\ gen.pc = "loop"
    /\ GenContinue(gen.i, gen.d)
    /\ \E r \in RandomSamples, vAbove \in BOOLEAN : GenIteration(r, vAbove)
    /\ UNCHANGED <<coreVars, csv, host, app>>

\* return { time, voltage, segments }
GenReturn ==
    /\ gen.pc = "loop"
    /\ ~GenContinue(gen.i, gen.d)
    /\ gen' = [gen EXCEPT !.pc = "done"]
    /\ UNCHANGED <<coreVars, csv, host, app>>

NextGen == GenStep \/ GenReturn

SpecGen == InitGen /\ [][NextGen]_vars

\* C14: the generator returns three parallel arrays of length d * 250 with
\* time[i] = i / 250; on a 10 s signal calculateStats reports
\* duration = 10 - 1/250 (2499 ticks of 1/250 s).
C14_GeneratedArrays ==
    /\ Len(gen.time) = gen.voltageLen /\ gen.voltageLen = gen.segLen
    /\ Len(gen.time) > 0 => gen.time[Len(gen.time)] = Len(gen.time) - 1
    /\ gen.pc = "done" =>
          /\ Len(gen.time) = gen.d * 250
          /\ \A k \in 0..(Len(gen.time) - 1) : At(gen.time, k) = k
          /\ gen.d = 10 => calculateStats(<<>>, gen.time).duration = 10 * 250 - 1

C14_Witness ==
    /\ gen.pc = "done"
    /\ gen.type = "afib"
    /\ gen.d = 10
    /\ Len(gen.time) = 2500

\* No generated sample has its phase in the QRS window and also in the P or
\* the T window: for every archetype the QRS window (0.38, 0.44) is disjoint
\* from the P window (0.1, 0.22) and from the T window
\* (0.5 qtFactor, 0.75 qtFactor), qtFactor being 1 or 1.6.
GenWindowsDisjoint ==
    gen.i > 0 =>
        ~( /\ InQrsWindow(gen.dist)
           /\ InPWindow(gen.dist) \/ InTWindow(gen.type, gen.dist) )

----------------------------------------------------------------------------
(* parseECGCSV                                                              *)
(*                                                                         *)
(* results.data, as Papa.parse delivers it with header: true and            *)
(* dynamicTyping: true, is a list of row objects keyed by the header        *)
(* fields.  A row is kept as the list of its cells in header order; a row   *)
(* shorter than the header lacks the trailing keys.  A cell is a number, a  *)
(* string or null.                                                          *)

MaxRows == 2

HeaderNames == {"time", "voltage", "x", "y", "time_val"}

\* k.toLowerCase().includes('time')
IncludesTime(k) == k \in {"time", "time_val"}

\* includes('volt') || includes('lead') || includes('val')
IncludesVolt(k) == k \in {"voltage", "time_val"}

NumberCell(k) == [type |-> "number", val |-> k]

StringCell == [type |-> "string", val |-> 0]

NullCell == [type |-> "object", val |-> 0]

UndefinedCell == [type |-> "undefined", val |-> 0]

CsvCells == {NumberCell(1), NumberCell(2), StringCell, NullCell}

NoKey == "undefined"

\* Object.keys(data[0])
KeysOf(header, row) == SubSeq(header, 1, Len(row))

\* the first index (1-based) of a key in the set S, 0 if there is none
FindIndex(keys, S) ==
    IF \E j \in 1..Len(keys) : keys[j] \in S
    THEN CHOOSE j \in 1..Len(keys) :
             keys[j] \in S /\ \A m \in 1..(j - 1) : keys[m] \notin S
    ELSE 0

\* keys.find(k => ...includes('time')) || keys[0]
TimeKey(keys) ==
    LET j == FindIndex(keys, {k \in HeaderNames : IncludesTime(k)})
    IN  IF j > 0 THEN keys[j]
        ELSE IF InRange(keys, 0) THEN At(keys, 0) ELSE NoKey

\* keys.find(k => ...includes('volt') || ...) || keys[1]
VoltageKey(keys) ==
    LET j == FindIndex(keys, {k \in HeaderNames : IncludesVolt(k)})
    IN  IF j > 0 THEN keys[j]
        ELSE IF InRange(keys, 1) THEN At(keys, 1) ELSE NoKey

\* row[key]
CellAt(header, row, key) ==
    IF \E j \in 1..Len(row) : header[j] = key
    THEN row[CHOOSE j \in 1..Len(row) : header[j] = key]
    ELSE UndefinedCell

\* typeof t === 'number' && typeof v === 'number'
KeepRowTimeOnly(t, v) == t.type = "number"

KeepRow(t, v) == t.type = "number" /\ v.type = "number"

\* data.forEach(row => { ... time.push(t); voltage.push(v) })
RECURSIVE ForEachRow(_, _, _, _, _)
ForEachRow(header, data, timeKey, voltageKey, out) ==
    IF data = <<>> THEN out
    ELSE LET t == CellAt(header, Head(data), timeKey)
             v == CellAt(header, Head(data), voltageKey)
         IN  ForEachRow(header, Tail(data), timeKey, voltageKey,
                        IF KeepRow(t, v)
                        THEN [time |-> Append(out.time, t.val),
                              voltage |-> Append(out.voltage, v.val)]
                        ELSE out)

InitCsv ==
    /\ pc = "ready"
    /\ time = <<>> /\ voltage = <<>>
    /\ segsArg = Undefined
    /\ peaksArg = <<>>
    /\ peaksIndices = <<>>
    /\ segments = <<>>
    /\ stats = NoStats
    /\ gen = Idle /\ host = Idle /\ app = Idle
    /\ \E header \in {h \in SeqsUpTo(HeaderNames, 2) :
                          Len(h) >= 1 /\ (Len(h) = 2 => h[1] # h[2])} :
       \E data \in SeqsUpTo({r \in SeqsUpTo(CsvCells, Len(header)) : Len(r) >= 1},
                            MaxRows) :
          csv = [pc |-> "parsing", header |-> header, data |-> data,
                 time |-> <<>>, voltage |-> <<>>, segments |-> <<>>]

\* complete: (results) => { ... }
ParseComplete ==
    /\ csv.pc = "parsing"
    /\ IF Len(csv.data) = 0
       THEN csv' = [csv EXCEPT !.pc = "rejected"]
       ELSE LET keys == KeysOf(csv.header, csv.data[1])
                out  == ForEachRow(csv.header, csv.data, TimeKey(keys),
                                   VoltageKey(keys),
                                   [time |-> <<>>, voltage |-> <<>>])
            IN  csv' = [csv EXCEPT !.pc = "resolved",
                                   !.time = out.time,
                                   !.voltage = out.voltage,
                                   !.segments = AllBaseline(Len(out.time))]
    /\ UNCHANGED <<coreVars, gen, host, app>>

\* error: (error) => { reject(error) }
ParseError ==
    /\ csv.pc = "parsing"
    /\ csv' = [csv EXCEPT !.pc = "rejected"]
    /\ UNCHANGED <<coreVars, gen, host, app>>

NextCsv == ParseComplete \/ ParseError

SpecCsv == InitCsv /\ [][NextCsv]_vars

\* the rows (1-based positions in data) whose time and voltage cells, under
\* the columns the parser picked, are both numbers
NumericRows ==
    LET keys == KeysOf(csv.header, csv.data[1])
    IN  {i \in 1..Len(csv.data) :
            /\ CellAt(csv.header, csv.data[i], TimeKey(keys)).type = "number"
            /\ CellAt(csv.header, csv.data[i], VoltageKey(keys)).type = "number"}

\* the k-th smallest element of a set of naturals
Nth(S, k) == CHOOSE i \in S : Cardinality({j \in S : j <= i}) = k

\* C17: parseECGCSV resolves with time and voltage of equal length holding,
\* in source order, exactly the rows whose time and voltage cells are both
\* numeric (others are dropped, never defaulted to zero); a source with no
\* data rows is rejected instead of resolving.
C17_ParsedRows ==
    /\ csv.pc = "resolved" =>
          /\ Len(csv.data) > 0
          /\ Len(csv.time) = Len(csv.voltage)
          /\ Len(csv.time) = Cardinality(NumericRows)
          /\ \A k \in 1..Len(csv.time) :
                LET row  == csv.data[Nth(NumericRows, k)]
                    keys == KeysOf(csv.header, csv.data[1])
                IN  /\ csv.time[k] = CellAt(csv.header, row, TimeKey(keys)).val
                    /\ csv.voltage[k] = CellAt(csv.header, row, VoltageKey(keys)).val
    /\ (csv.pc # "parsing" /\ Len(csv.data) = 0) => csv.pc = "rejected"

\* a two-row source whose first row has a non-numeric voltage cell
C17_Witness ==
    /\ csv.pc = "resolved"
    /\ csv.header = <<"time", "voltage">>
    /\ csv.data = <<<<NumberCell(1), StringCell>>, <<NumberCell(2), NumberCell(1)>>>>
    /\ csv.time = <<2>>
    /\ csv.voltage = <<1>>

----------------------------------------------------------------------------
(* ECGPlot: loading a source                                                *)
(*                                                                         *)
(* Every call of loadPreset and every chosen or dropped file is a load      *)
(* request, numbered in the order the requests are made.  What              *)
(* analyzeData computes for a request is kept as the request itself: the    *)
(* displayed data, beat set and statistics each name the request whose      *)
(* signal they were computed from.  The 500 ms timers all have the same     *)
(* delay and fire in the order they were set; a file read and a CSV parse   *)
(* complete at any time relative to the timers and to each other.           *)

MaxLoads == 3

PresetButtons == {"normal", "tachycardia", "afib", "qt_prolongation"}

NoRequest == [id |-> 0, source |-> "none"]

Request(id, source) == [id |-> id, source |-> source]

\* setBeatsIndices / onBeatsDetected, setData, onStatsUpdate of one call
analyzeData(req) == [data |-> req, beats |-> req, stats |-> req]

InitHost ==
    /\ pc = "ready"
    /\ time = <<>> /\ voltage = <<>>
    /\ segsArg = Undefined
    /\ peaksArg = <<>>
    /\ peaksIndices = <<>>
    /\ segments = <<>>
    /\ stats = NoStats
    /\ gen = Idle /\ csv = Idle /\ app = Idle
    /\ host = [pc |-> "rendered",
               activePreset |-> "normal",
               loading |-> FALSE,
               shown |-> analyzeData(NoRequest),
               timers |-> <<>>,
               readers |-> {},
               parses |-> {},
               issued |-> 0,
               failed |-> {}]

\* loadPreset(type): the callback is queued behind the timers already set
loadPreset(type) ==
    LET req == Request(host.issued + 1, type)
    IN  host' = [host EXCEPT !.pc = "mounted",
                             !.activePreset = type,
                             !.loading = TRUE,
                             !.timers = Append(@, req),
                             !.issued = @ + 1]

\* useEffect(() => { loadPreset('normal') }, [])
MountEffect ==
    /\ host.pc = "rendered"
    /\ loadPreset("normal")
    /\ UNCHANGED <<coreVars, gen, csv, app>>

\* onClick={() => loadPreset(type)}
ClickPreset ==
    /\ host.pc = "mounted"
    /\ host.issued < MaxLoads
    /\ \E type \in PresetButtons : loadPreset(type)
    /\ UNCHANGED <<coreVars, gen, csv, app>>

\* handleFileChange / handleDrop with a file present
SelectFile ==
    /\ host.pc = "mounted"
    /\ host.issued < MaxLoads
    /\ host' = [host EXCEPT !.activePreset = "custom",
                            !.readers = @ \cup {Request(host.issued + 1, "custom")},
                            !.issued = @ + 1]
    /\ UNCHANGED <<coreVars, gen, csv, app>>

\* the setTimeout callback of loadPreset
PresetTimeout ==
    /\ host.pc = "mounted"
    /\ host.timers # <<>>
    /\ host' = [host EXCEPT !.shown = analyzeData(Head(host.timers)),
                            !.loading = FALSE,
                            !.timers = Tail(@)]
    /\ UNCHANGED <<coreVars, gen, csv, app>>

\* reader.onload: processCSV up to the pending promise
ReaderLoaded ==
    /\ \E req \in host.readers :
          host' = [host EXCEPT !.readers = @ \ {req},
                               !.loading = TRUE,
                               !.parses = @ \cup {req}]
    /\ UNCHANGED <<coreVars, gen, csv, app>>

\* .then((parsedData) => { analyzeData(...); setLoading(false) })
ParseResolved ==
    /\ \E req \in host.parses :
          host' = [host EXCEPT !.parses = @ \ {req},
                               !.shown = analyzeData(req),
                               !.loading = FALSE]
    /\ UNCHANGED <<coreVars, gen, csv, app>>

\* .catch((err) => { onError?.(...); setLoading(false) })
ParseRejected ==
    /\ \E req \in host.parses :
          host' = [host EXCEPT !.parses = @ \ {req},
                               !.failed = @ \cup {req.id},
                               !.loading = FALSE]
    /\ UNCHANGED <<coreVars, gen, csv, app>>

NextHost ==
    \/ MountEffect
    \/ ClickPreset
    \/ SelectFile
    \/ PresetTimeout
    \/ ReaderLoaded
    \/ ParseResolved
    \/ ParseRejected

SpecHost == InitHost /\ [][NextHost]_vars

\* no load is in flight
NoPendingLoads ==
    /\ host.timers = <<>>
    /\ host.readers = {}
    /\ host.parses = {}

\* C16: once all pending loads have completed, the displayed signal, beat
\* set and statistics are those of the most recently requested source, the
\* one named by activePreset (stated for a latest request that did not
\* fail), so an earlier load's results have not replaced a later load's.
C16_LatestLoadShown ==
       ( /\ host.pc = "mounted"
         /\ NoPendingLoads
         /\ host.issued \notin host.failed )
       => /\ host.shown.data.id = host.issued
          /\ host.shown.beats.id = host.issued
          /\ host.shown.stats.id = host.issued
          /\ host.shown.data.source = host.activePreset

\* C30: the loading flag is true in every state in which a preset load or
\* a CSV parse is still outstanding.
C30_LoadingWhileOutstanding ==
    (host.timers # <<>> \/ host.parses # {}) => host.loading

----------------------------------------------------------------------------
(* ECGPlot: point details under the cursor                                  *)
(*                                                                         *)
(* data.time is in `time`, data.voltage in `voltage`, data.segments in      *)
(* `segments`; host holds the cursorTimestamp prop and the index the        *)
(* effect settled on; the details go to App through onPointDetailsChange.   *)

MaxCursorLen == 3

CursorTimeVals == {0, 50, 300, 1000}

CursorVals == {0, 40, 150, 400, 1200}

\* scan range +/- 100 points
ScanRadius == 100

\* bestDist > 1.0
FallbackDist == 100

Min2(a, b) == IF a < b THEN a ELSE b

Max2(a, b) == IF a > b THEN a ELSE b

\* Math.min(Math.max(0, Math.floor((cursor / totalDuration) * n)), n - 1);
\* NaN when cursor / totalDuration is 0 / 0
SafeEstimate(t, cursor) ==
    LET n     == Len(t)
        total == At(t, n - 1)
    IN  IF total = 0
        THEN IF cursor = 0 THEN NaN
             ELSE IF cursor > 0 THEN Num(n - 1) ELSE Num(0)
        ELSE Num(Min2(Max2(0, FloorRatio(cursor * n, total)), n - 1))

\* for (let i = startScan; i < endScan; i++) { if (dist < bestDist) ... };
\* best.dist = -1 stands for Infinity
RECURSIVE LocalScan(_, _, _, _, _)
LocalScan(t, cursor, i, endScan, best) ==
    IF i >= endScan THEN best
    ELSE LET dist == Abs(At(t, i) - cursor)
         IN  LocalScan(t, cursor, i + 1, endScan,
                       IF best.dist = -1 \/ dist < best.dist
                       THEN [dist |-> dist, targetIdx |-> i]
                       ELSE best)

\* data.time.findIndex(t => t >= cursorTimestamp)
FindIndexAtLeast(t, cursor) ==
    IF \E j \in 1..Len(t) : t[j] >= cursor
    THEN (CHOOSE j \in 1..Len(t) :
              t[j] >= cursor /\ \A m \in 1..(j - 1) : t[m] < cursor) - 1
    ELSE -1

\* the fallback of lines 72-75
Fallback(t, cursor, best) ==
    IF best.targetIdx = -1 \/ best.dist > FallbackDist
    THEN LET idx == FindIndexAtLeast(t, cursor)
         IN  IF idx = -1 THEN Len(t) - 1 ELSE idx
    ELSE best.targetIdx

\* targetIdx after the local scan and the fallback
TargetIdx(t, cursor) ==
    LET est  == SafeEstimate(t, cursor)
        none == [dist |-> -1, targetIdx |-> -1]
        best == IF est = NaN THEN none
                ELSE LocalScan(t, cursor, Max2(0, est.val - ScanRadius),
                               Min2(Len(t), est.val + ScanRadius), none)
    IN  Fallback(t, cursor, best)

InitCursor ==
    /\ pc = "ready"
    /\ \E n \in 0..MaxCursorLen :
          /\ time \in {t \in [1..n -> CursorTimeVals] : NonDecreasing(t)}
          /\ voltage = [i \in 1..n |-> i]
          /\ segments \in {AllBaseline(n), [i \in 1..n |-> "qrs"]}
    /\ segsArg = Undefined
    /\ peaksArg = <<>>
    /\ peaksIndices = <<>>
    /\ stats = NoStats
    /\ gen = Idle /\ csv = Idle
    /\ \E c \in CursorVals :
          host = [pc |-> "effect", cursorTimestamp |-> c, targetIdx |-> -1]
    /\ app = AppInitial

\* the effect of lines 46-84
PointDetailsEffect ==
    /\ host.pc = "effect"
    /\ IF Len(time) = 0
       THEN /\ host' = [host EXCEPT !.pc = "done"]
            /\ app' = app
       ELSE LET idx == TargetIdx(time, host.cursorTimestamp)
            IN  /\ host' = [host EXCEPT !.pc = "done", !.targetIdx = idx]
                /\ app' = IF InRange(time, idx)
                          THEN [app EXCEPT !.pointDetails =
                                    [time |-> At(time, idx),
                                     voltage |-> At(voltage, idx),
                                     segment |-> At(segments, idx)]]
                          ELSE app
    /\ UNCHANGED <<coreVars, gen, csv>>

NextCursor == PointDetailsEffect

SpecCursor == InitCursor /\ [][NextCursor]_vars

\* C22: for a non-empty signal the index used is within [0, len(time)) and
\* the PointDetails reported is a sample whose time is nearest to the
\* cursor timestamp over the whole signal.
C22_NearestSample ==
    (host.pc = "done" /\ Len(time) > 0) =>
        /\ InRange(time, host.targetIdx)
        /\ app.pointDetails.segment # "null"
        /\ app.pointDetails.time = At(time, host.targetIdx)
        /\ \A i \in 1..Len(time) :
              Abs(app.pointDetails.time - host.cursorTimestamp)
                  <= Abs(time[i] - host.cursorTimestamp)

----------------------------------------------------------------------------
(* App: playback cursor and tutorial                                        *)
(*                                                                         *)
(* Times are in centiseconds.  An animation frame arrives with the time     *)
(* elapsed since the previous frame; the frame callback is the one of the   *)
(* latest render, so it reads the current state.  app.event and app.delta   *)
(* record which handler ran last and the delta the last frame computed.     *)

\* time between two animation frames (a hidden tab resumes with a long one)
FrameDeltas == {0, 300, 700}

\* stats.duration of a reported analysis
AppDurations == {0, 500, 1000}

\* beat timestamps of a reported analysis
AppBeatSets == {<<>>, <<300>>}

\* cursor positions chosen on the plot or the slider
CursorChoices == {0, 500}

\* tutorialSteps.length
NumTutorialSteps == 3

\* Math.abs(t - cursorTimestamp) < 0.08
BeatWindow == 8

\* if (!isPlaying || tutorialMode) { ...; return }
FramePausedPlayingOnly(a) == ~a.isPlaying

FramePaused(a) == ~a.isPlaying \/ a.tutorialMode

\* let next = prev + delta; if (next > stats.duration) next = 0
AdvanceCursorNoLoop(prev, delta, duration) == prev + delta

AdvanceCursor(prev, delta, duration) ==
    IF prev + delta > duration THEN 0 ELSE prev + delta

\* beatTimestamps.some(t => Math.abs(t - cursorTimestamp) < 0.08)
IsBeat(a) ==
    \E k \in 1..Len(a.beatTimestamps) :
        Abs(a.beatTimestamps[k] - a.cursorTimestamp) < BeatWindow

\* tutorialStep < tutorialSteps.length - 1: Next is shown, otherwise Finish
NextShownAlways(step) == step <= NumTutorialSteps - 1

NextShown(step) == step < NumTutorialSteps - 1

InitApp ==
    /\ pc = "ready"
    /\ time = <<>> /\ voltage = <<>>
    /\ segsArg = Undefined
    /\ peaksArg = <<>>
    /\ peaksIndices = <<>>
    /\ segments = <<>>
    /\ stats = NoStats
    /\ gen = Idle /\ csv = Idle /\ host = Idle
    /\ app = AppInitial

\* animate(time)
AnimationFrame ==
    /\ \E elapsed \in FrameDeltas :
          IF FramePaused(app)
          THEN app' = [app EXCEPT !.lastFrameSet = TRUE,
                                  !.event = "frame",
                                  !.delta = 0]
          ELSE LET delta == IF app.lastFrameSet THEN elapsed ELSE 0
               IN  app' = [app EXCEPT
                              !.lastFrameSet = TRUE,
                              !.cursorTimestamp =
                                  AdvanceCursor(@, delta, app.stats.duration),
                              !.activeBeat = IsBeat(app),
                              !.event = "frame",
                              !.delta = delta]
    /\ UNCHANGED <<coreVars, gen, csv, host>>

\* onClick={() => setIsPlaying(!isPlaying)}
TogglePlay ==
    /\ app' = [app EXCEPT !.isPlaying = ~@, !.event = "play"]
    /\ UNCHANGED <<coreVars, gen, csv, host>>

\* the tutorial toggle button
ToggleTutorial ==
    /\ app' = IF ~app.tutorialMode
              THEN [app EXCEPT !.tutorialMode = TRUE,
                               !.tutorialStep = 0,
                               !.isPlaying = FALSE,
                               !.event = "tutorial"]
              ELSE [app EXCEPT !.tutorialMode = FALSE, !.event = "tutorial"]
    /\ UNCHANGED <<coreVars, gen, csv, host>>

\* Previous: setTutorialStep(Math.max(0, tutorialStep - 1)), disabled at step 0
TutorialPrevious ==
    /\ app.tutorialMode
    /\ app.tutorialStep # 0
    /\ app' = [app EXCEPT !.tutorialStep = Max2(0, @ - 1), !.event = "previous"]
    /\ UNCHANGED <<coreVars, gen, csv, host>>

\* Next: setTutorialStep(tutorialStep + 1)
TutorialNext ==
    /\ app.tutorialMode
    /\ NextShown(app.tutorialStep)
    /\ app' = [app EXCEPT !.tutorialStep = @ + 1, !.event = "next"]
    /\ UNCHANGED <<coreVars, gen, csv, host>>

\* Finish: setTutorialMode(false); setTutorialStep(0)
TutorialFinish ==
    /\ app.tutorialMode
    /\ ~NextShown(app.tutorialStep)
    /\ app' = [app EXCEPT !.tutorialMode = FALSE,
                          !.tutorialStep = 0,
                          !.event = "finish"]
    /\ UNCHANGED <<coreVars, gen, csv, host>>

\* ECGPlot's analyzeData: onBeatsDetected(timestamps), then onStatsUpdate(stats)
AnalysisReported ==
    /\ \E beats \in AppBeatSets, d \in AppDurations :
          app' = [handleStatsUpdate(handleBeatsDetected(app, beats),
                                    [app.stats EXCEPT !.duration = d])
                      EXCEPT !.event = "analysis"]
    /\ UNCHANGED <<coreVars, gen, csv, host>>

\* handleCursorChange / handleSliderChange
CursorChange ==
    /\ \E t \in CursorChoices :
          app' = [app EXCEPT !.cursorTimestamp = t, !.event = "cursor"]
    /\ UNCHANGED <<coreVars, gen, csv, host>>

NextApp ==
    \/ AnimationFrame
    \/ TogglePlay
    \/ ToggleTutorial
    \/ TutorialPrevious
    \/ TutorialNext
    \/ TutorialFinish
    \/ AnalysisReported
    \/ CursorChange

SpecApp == InitApp /\ [][NextApp]_vars

\* C27: an animation frame while isPlaying is true and the tutorial is off
\* sets the cursor to prev + delta, or to 0 when prev + delta exceeds
\* stats.duration, so a frame keeps a cursor in [0, duration] inside it;
\* while isPlaying is false a frame leaves the cursor unchanged.
C27_CursorLoop ==
    [][ app'.event = "frame" =>
          /\ (app.isPlaying /\ ~app.tutorialMode) =>
                app'.cursorTimestamp =
                    IF app.cursorTimestamp + app'.delta > app.stats.duration
                    THEN 0
                    ELSE app.cursorTimestamp + app'.delta
          /\ ~app.isPlaying => app'.cursorTimestamp = app.cursorTimestamp
          /\ app'.stats.duration = app.stats.duration
          /\ ( /\ app.cursorTimestamp >= 0
               /\ app.cursorTimestamp <= app.stats.duration )
             => /\ app'.cursorTimestamp >= 0
                /\ app'.cursorTimestamp <= app'.stats.duration ]_vars

\* a 7 s frame on a 5 s signal has wrapped the cursor to 0
C27_Witness ==
    /\ app.event = "frame"
    /\ app.isPlaying /\ ~app.tutorialMode
    /\ app.delta = 700
    /\ app.stats.duration = 500
    /\ app.cursorTimestamp = 0

\* C28: tutorialStep is always an index 0..2 into tutorialSteps; entering
\* tutorial mode resets it to 0, and Finish leaves tutorial mode with the
\* step at 0.
C28_TutorialStepBounds ==
    /\ app.tutorialStep \in 0..(NumTutorialSteps - 1)
    /\ (app.event = "tutorial" /\ app.tutorialMode) => app.tutorialStep = 0
    /\ app.event = "finish" => (~app.tutorialMode /\ app.tutorialStep = 0)
    /\ app.event = "next" => app.tutorialStep >= 1
    /\ app.event = "previous" => app.tutorialStep <= NumTutorialSteps - 2

\* Finish has been pressed (it is offered only on the last step)
C28_Witness ==
    /\ app.event = "finish"
    /\ ~app.tutorialMode
    /\ app.tutorialStep = 0

\* C29: while tutorialMode is true an animation frame leaves
\* cursorTimestamp unchanged, also when isPlaying has been set to true
\* during the tutorial.
C29_TutorialFreezes ==
    [][ (app'.event = "frame" /\ app.tutorialMode) =>
            app'.cursorTimestamp = app.cursorTimestamp ]_vars

\* a frame has run in tutorial mode with isPlaying true, after earlier
\* frames, on a cursor inside the signal
C29_Witness ==
    /\ app.event = "frame"
    /\ app.tutorialMode
    /\ app.isPlaying
    /\ app.lastFrameSet
    /\ app.cursorTimestamp = 500
    /\ app.stats.duration = 1000

====
